---- MODULE Spec2Model ----
(***************************************************************************)
(* State-machine model of src/src/index.js: an express application with a  *)
(* memory-backed express-session store, an OAuth login flow and a few      *)
(* guarded routes that proxy Google Drive / Sheets calls.                  *)
(*                                                                         *)
(* One request is handled by a chain of event-loop callbacks.  Every       *)
(* action below is one such callback: it starts where the previous await   *)
(* (or the deferred store callback) left off and runs to the next await or *)
(* to the response.  Callbacks of different requests interleave freely.    *)
(*                                                                         *)
(* Optional JavaScript values are sequences of length <= 1: <<>> is        *)
(* undefined, <<x>> is x.  Strings that the code measures or rewrites are  *)
(* sequences of one-character strings.                                     *)
(***************************************************************************)
EXTENDS Integers, Sequences, FiniteSets, TLC

VARIABLES
    store,      \* MemoryStore.sessions: session id -> stored session (optional)
    nextSid,    \* the next fresh session id generate() hands out
    issued,     \* session ids that were sent to a client in a Set-Cookie
    env,        \* process.env: the optional GOOGLE_REDIRECT_URI
    drive,      \* the remote Drive listing: a sequence of pages of files
    req,        \* slot -> the state of the request in flight in that slot
    resp,       \* the response written by the last step (NoResp otherwise)
    loggedOut,  \* history: session ids whose GET /auth/logout has completed
    posted,     \* history: id -> redirectUri answered by its last successful POST
    nreq        \* number of requests that have arrived

vars == <<store, nextSid, issued, env, drive, req, resp, loggedOut, posted, nreq>>

----------------------------------------------------------------------------
(* Bounds of the model *)

MaxSlots == 2
MaxRequests == 3
MaxSid == 2
MaxPages == 3
MaxFiles == 2
MaxPageArg == 4
MaxTabs == 2

(* Program constants *)

MinCredLen == 10
MinPage == 1
DefaultPage == 1
MinPageSize == 1
MaxPageSize == 50
DefaultPageSize == 12

----------------------------------------------------------------------------
(* Values *)

None == <<>>
Some(x) == <<x>>

Slots == 1..MaxSlots
Sids == 1..MaxSid

Chars(c, n) == [i \in 1..n |-> c]

DefaultRedirectUri ==
    <<"h", "t", "t", "p", ":", "/", "/", "l", "o", "c", "a", "l", "h", "o",
      "s", "t", ":", "4", "0", "0", "0", "/", "a", "u", "t", "h", "/", "c",
      "a", "l", "l", "b", "a", "c", "k">>

DefaultPostLogin == "http://localhost:5173/"

\* illustrative request and environment values
AppUri == <<"a", "p", "p", ":", "/", "/", "c", "b">>
EnvUri == <<"e", "n", "v", ":", "/", "/", "c", "b">>
BadUri == <<"n", "o", " ", "u", "r", "i">>
EnvClientId == Chars("e", 12)
EnvClientSecret == Chars("f", 12)

Alpha == {"a", "b", "c", "e", "f", "h", "i", "l", "n", "o", "p", "r", "s", "t", "u", "v", "x"}
Digit == {"0", "4"}
SchemeChars == Alpha \cup Digit \cup {"+", "-", "."}
UriChars == Alpha \cup Digit \cup {":", "/", ".", "-", "+", "'"}

TokenBundles == {"t1", "t2"}

EmptySession == [tokens |-> None, clientConfig |-> None]

Guarded == {"me", "sheets", "refresh", "tabs"}

Idle ==
    [pc |-> "idle", route |-> "none", cookieId |-> 0, sid |-> 0,
     sess |-> EmptySession, orig |-> EmptySession, gone |-> FALSE,
     late |-> FALSE, expect |-> None, arg |-> None, loc |-> None,
     calls |-> <<>>]

NoResp ==
    [route |-> "none", status |-> 0, body |-> None, cookieId |-> 0, sid |-> 0,
     orig |-> EmptySession, late |-> FALSE, expect |-> None, arg |-> None,
     loc |-> None, calls |-> <<>>]

MkResp(rq, status, body) ==
    [route |-> rq.route, status |-> status, body |-> body,
     cookieId |-> rq.cookieId, sid |-> rq.sid, orig |-> rq.orig,
     late |-> rq.late, expect |-> rq.expect, arg |-> rq.arg, loc |-> rq.loc,
     calls |-> rq.calls]

----------------------------------------------------------------------------
(* express-session with the default MemoryStore, as configured at          *)
(* index.js:20-28 (resave: false, saveUninitialized: false, no maxAge).    *)

\* The middleware on arrival: store.get(cookie id) reads the stored session
\* into a private copy; without one, generate() makes an empty session
\* under a fresh id.
LoadSession(st, cookie, fresh) ==
    IF cookie # 0 /\ st[cookie] # None
    THEN [sid |-> cookie, sess |-> st[cookie][1], isNew |-> FALSE]
    ELSE [sid |-> fresh, sess |-> EmptySession, isNew |-> TRUE]

\* shouldSave at res.end: there is a session object and its hash differs
\* from the hash taken when it was loaded or generated.
shouldSave(rq) == ~rq.gone /\ rq.sess # rq.orig

\* shouldSetCookie: only a new session that was modified gets a cookie.
shouldSetCookie(rq) == ~rq.gone /\ rq.cookieId # rq.sid /\ rq.sess # rq.orig

\* res.end: session.save() writes the request's whole copy back.
SaveOnEnd(st, rq) ==
    IF shouldSave(rq) THEN [st EXCEPT ![rq.sid] = Some(rq.sess)] ELSE st

----------------------------------------------------------------------------
(* Pure helpers of index.js *)

\* getOAuthClient: per-field fallback from the session's clientConfig to
\* the environment.
OrElse(s, dflt) == IF s # None /\ s[1] # <<>> THEN s[1] ELSE dflt

FallbackRedirectUri(e) == OrElse(e, DefaultRedirectUri)

getOAuthClient(sess, e) ==
    LET cfg == sess.clientConfig IN
    [clientId |-> IF cfg # None THEN OrElse(Some(cfg[1].clientId), EnvClientId)
                  ELSE EnvClientId,
     clientSecret |-> IF cfg # None
                      THEN OrElse(Some(cfg[1].clientSecret), EnvClientSecret)
                      ELSE EnvClientSecret,
     redirectUri |-> IF cfg # None
                     THEN OrElse(Some(cfg[1].redirectUri), OrElse(e, None))
                     ELSE OrElse(e, None)]

ensureAuthedByConfig(sess) == sess.tokens # None \/ sess.clientConfig # None
ensureAuthed(sess) == sess.tokens # None

\* Joi.string().uri(): a scheme, a colon, and URI characters after it.
IsUri(s) ==
    \E i \in 2..Len(s) :
        /\ s[i] = ":"
        /\ s[1] \in Alpha
        /\ \A j \in 2..(i - 1) : s[j] \in SchemeChars
        /\ \A j \in (i + 1)..Len(s) : s[j] \in UriChars

\* Joi.string().min(n).required() on an optional string.
CheckRequiredString(f, n) ==
    IF f = None THEN "any.required"
    ELSE IF f[1] = <<>> THEN "string.empty"
    ELSE IF Len(f[1]) < n THEN "string.min"
    ELSE "ok"

\* Joi.string().uri().optional().allow('').default(...)
CheckRedirectUri(f) ==
    IF f = None \/ f[1] = <<>> THEN "ok"
    ELSE IF IsUri(f[1]) THEN "ok" ELSE "string.uri"

\* schema.validate of POST /auth/client-config: the first failing key, or
\* the value with the default filled in.
ValidateAcceptAll(body, e) ==
    [error |-> None,
     value |-> [clientId |-> OrElse(body.clientId, <<>>),
                clientSecret |-> OrElse(body.clientSecret, <<>>),
                redirectUri |-> OrElse(body.redirectUri, <<>>)]]
ValidateClientConfig(body, e) ==
    LET a == CheckRequiredString(body.clientId, MinCredLen)
        b == CheckRequiredString(body.clientSecret, MinCredLen)
        c == CheckRedirectUri(body.redirectUri)
    IN  IF a # "ok" THEN [error |-> Some(<<"clientId", a>>), value |-> None]
        ELSE IF b # "ok" THEN [error |-> Some(<<"clientSecret", b>>), value |-> None]
        ELSE IF c # "ok" THEN [error |-> Some(<<"redirectUri", c>>), value |-> None]
        ELSE [error |-> None,
              value |-> [clientId |-> body.clientId[1],
                         clientSecret |-> body.clientSecret[1],
                         redirectUri |-> IF body.redirectUri = None
                                         THEN FallbackRedirectUri(e)
                                         ELSE body.redirectUri[1]]]

\* index.js:104-106
StoredRedirectUriRaw(value, e) == value.redirectUri
StoredRedirectUri(value, e) ==
    IF value.redirectUri # <<>> THEN value.redirectUri
    ELSE FallbackRedirectUri(e)

\* index.js:88
ConfigPresent(sess) ==
    /\ sess.clientConfig # None
    /\ sess.clientConfig[1].clientId # <<>>
    /\ sess.clientConfig[1].clientSecret # <<>>

----------------------------------------------------------------------------
(* Request arrival and completion *)

\* A request reaches the session middleware: the session is loaded (or
\* generated) now, the route handler runs in a later callback.
Arrive(r, route, cookie, arg) ==
    LET ld == LoadSession(store, cookie, nextSid) IN
    /\ req[r].pc = "idle"
    /\ \A q \in Slots : q < r => req[q].pc # "idle"
    /\ nreq < MaxRequests
    /\ ld.isNew => nextSid <= MaxSid
    /\ req' = [req EXCEPT ![r] =
                 [Idle EXCEPT !.pc = "handler", !.route = route,
                              !.cookieId = cookie, !.sid = ld.sid,
                              !.sess = ld.sess, !.orig = ld.sess,
                              !.late = (cookie \in loggedOut),
                              !.expect = IF ld.isNew THEN None ELSE posted[ld.sid],
                              !.arg = arg]]
    /\ nextSid' = IF ld.isNew THEN nextSid + 1 ELSE nextSid
    /\ nreq' = nreq + 1
    /\ resp' = NoResp
    /\ UNCHANGED <<store, issued, env, drive, loggedOut, posted>>

\* The response is written: res.end commits the session, the slot is free.
Finish(r, rq, status, body) ==
    /\ store' = SaveOnEnd(store, rq)
    /\ issued' = IF shouldSetCookie(rq) THEN issued \cup {rq.sid} ELSE issued
    /\ posted' = IF rq.route = "cfgPost" /\ status = 200
                 THEN [posted EXCEPT ![rq.sid] = Some(body.redirectUri)]
                 ELSE posted
    /\ resp' = MkResp(rq, status, body)
    /\ req' = [req EXCEPT ![r] = Idle]

\* The handler awaits a remote call.
Await(r, rq) ==
    /\ req' = [req EXCEPT ![r] = rq]
    /\ resp' = NoResp
    /\ UNCHANGED <<store, issued, posted>>

At(r, route, pc) == req[r].route = route /\ req[r].pc = pc

----------------------------------------------------------------------------
(* Routes without a guard *)

\* GET /auth/login
Login(r) ==
    /\ At(r, "login", "handler")
    /\ Finish(r, req[r], 302,
              [location |-> "authUrl", client |-> getOAuthClient(req[r].sess, env)])
    /\ UNCHANGED <<nextSid, env, drive, loggedOut, nreq>>

\* GET /
Root(r) ==
    /\ At(r, "root", "handler")
    /\ Finish(r, req[r], 200, [html |-> DefaultPostLogin])
    /\ UNCHANGED <<nextSid, env, drive, loggedOut, nreq>>

\* index.js:73: `!code`
MissingCodeNever(code) == FALSE
MissingCode(code) == code = None \/ code[1] = ""

\* index.js:76: String(code)
StringOf(code) == IF code = None THEN "undefined" ELSE code[1]

\* GET /auth/callback up to the await of client.getToken
CallbackStart(r) ==
    LET rq == req[r] IN
    /\ At(r, "callback", "handler")
    /\ IF MissingCode(rq.arg.code)
       THEN Finish(r, rq, 400, [text |-> "Missing code"])
       ELSE Await(r, [rq EXCEPT !.pc = "getToken",
                        !.calls = Append(@, [api |-> "oauth2.getToken",
                                             code |-> StringOf(rq.arg.code),
                                             client |-> getOAuthClient(rq.sess, env)])])
    /\ UNCHANGED <<nextSid, env, drive, loggedOut, nreq>>

\* client.getToken settles: the tokens go into the request's session copy
\* and the redirect commits it; a rejection is answered 500.
CallbackResume(r, bundles) ==
    LET rq == req[r] IN
    /\ At(r, "callback", "getToken")
    /\ \/ /\ Finish(r, rq, 500, [text |-> "OAuth callback failed"])
          /\ UNCHANGED loggedOut
       \/ \E t \in bundles :
            /\ Finish(r, [rq EXCEPT !.sess.tokens = Some(t)], 302,
                      [location |-> DefaultPostLogin])
            /\ loggedOut' = IF rq.late THEN loggedOut \ {rq.cookieId} ELSE loggedOut
    /\ UNCHANGED <<nextSid, env, drive, nreq>>

\* GET /auth/client-config
ClientConfigGet(r) ==
    LET rq == req[r]
        present == ConfigPresent(rq.sess)
    IN
    /\ At(r, "cfgGet", "handler")
    /\ Finish(r, rq, 200,
              [configured |-> present,
               config |-> IF present
                          THEN Some([redirectUri |-> rq.sess.clientConfig[1].redirectUri])
                          ELSE None])
    /\ UNCHANGED <<nextSid, env, drive, loggedOut, nreq>>

\* POST /auth/client-config
ClientConfigPost(r) ==
    LET rq == req[r]
        v == ValidateClientConfig(rq.arg, env)
    IN
    /\ At(r, "cfgPost", "handler")
    /\ IF v.error # None
       THEN Finish(r, rq, 400, [error |-> v.error[1]])
       ELSE LET redirectUri == StoredRedirectUri(v.value, env) IN
            Finish(r, [rq EXCEPT !.sess.clientConfig =
                          Some([clientId |-> v.value.clientId,
                                clientSecret |-> v.value.clientSecret,
                                redirectUri |-> redirectUri])],
                   200, [ok |-> TRUE, redirectUri |-> redirectUri])
    /\ UNCHANGED <<nextSid, env, drive, loggedOut, nreq>>

\* GET /auth/logout: req.session.destroy deletes the store entry and the
\* request's session object; its callback is deferred.
Destroy(st, sid) == IF sid \in DOMAIN st THEN [st EXCEPT ![sid] = None] ELSE st

LogoutDestroy(r) ==
    LET rq == req[r] IN
    /\ At(r, "logout", "handler")
    /\ store' = Destroy(store, rq.sid)
    /\ posted' = [posted EXCEPT ![rq.sid] = None]
    /\ req' = [req EXCEPT ![r] = [rq EXCEPT !.pc = "destroyed", !.gone = TRUE]]
    /\ resp' = NoResp
    /\ UNCHANGED <<nextSid, issued, env, drive, loggedOut, nreq>>

\* the destroy callback: clearCookie and redirect (the cookie is cleared in
\* the browser that gets this response; requests already sent, and other
\* holders of the cookie, still carry the id)
LogoutDone(r) ==
    LET rq == req[r] IN
    /\ At(r, "logout", "destroyed")
    /\ Finish(r, rq, 302, [location |-> "/"])
    /\ loggedOut' = loggedOut \cup {rq.sid}
    /\ UNCHANGED <<nextSid, env, drive, nreq>>

----------------------------------------------------------------------------
(* The remote services, as the handlers see them *)

\* drive.files.list: the listing is a sequence of pages; no page token asks
\* for page 1, the token returned with page p asks for page p + 1, and the
\* last page comes with no token (0).
DriveList(d, tok) ==
    LET p == IF tok = 0 THEN 1 ELSE tok IN
    [files |-> d[p], nextPageToken |-> IF p < Len(d) THEN p + 1 ELSE 0]

FilesOfPage(p, k) == [j \in 1..k |-> [id |-> 10 * p + j]]

Drives ==
    UNION {{[p \in 1..n |-> FilesOfPage(p, size[p])] : size \in [1..n -> 0..MaxFiles]}
           : n \in 1..MaxPages}

Grid == <<<<"x", "y">>, <<"z">>>>

\* sheets.spreadsheets.values.get settles: rejected, or data.values
PreviewOutcomes ==
    {[ok |-> FALSE, values |-> None], [ok |-> TRUE, values |-> None],
     [ok |-> TRUE, values |-> Some(Grid)]}

TabEntries ==
    {None,
     Some([sheetId |-> 7, title |-> <<"a">>]),
     Some([sheetId |-> 8, title |-> <<"b", "'">>])}

\* sheets.spreadsheets.get settles: rejected, or data.sheets
MetaOutcomes ==
    {[ok |-> FALSE, sheets |-> <<>>]} \cup
    UNION {{[ok |-> TRUE, sheets |-> s] : s \in [1..n -> TabEntries]} : n \in 0..MaxTabs}

\* sheets.spreadsheets.values.batchGet settles: rejected, or
\* data.valueRanges (possibly undefined)
BatchOutcomes(n) ==
    {[ok |-> FALSE, valueRanges |-> None], [ok |-> TRUE, valueRanges |-> None]} \cup
    UNION {{[ok |-> TRUE, valueRanges |-> Some(v)] : v \in [1..m -> {None, Some(Grid)}]}
           : m \in 0..n}

\* the metadata outcomes the full server model draws from
MetaFew ==
    {[ok |-> FALSE, sheets |-> <<>>], [ok |-> TRUE, sheets |-> <<>>],
     [ok |-> TRUE, sheets |-> <<Some([sheetId |-> 7, title |-> <<"a">>])>>]}

UserInfo == [id |-> "u1", name |-> "User", email |-> "user@example", picture |-> "pic"]

----------------------------------------------------------------------------
(* Pure helpers of the guarded handlers *)

RECURSIVE ReplaceQuote(_, _)
\* String.replace(/'/g, by)
ReplaceQuote(s, by) ==
    IF s = <<>> THEN <<>>
    ELSE (IF Head(s) = "'" THEN by ELSE <<Head(s)>>) \o ReplaceQuote(Tail(s), by)

\* index.js:153: the name filter appended to the Drive query
NameFilter(query) ==
    IF query = <<>> THEN <<>>
    ELSE <<" and name contains '">> \o ReplaceQuote(query, <<"\\", "'">>) \o <<"'">>

\* index.js:215
RangeOf(title) == <<"'">> \o ReplaceQuote(title, <<"'", "'">>) \o <<"'!A1:E3">>

\* Joi.number().integer().min(lo).default(dflt)
CheckMin(f, lo) ==
    IF f = None THEN "ok"
    ELSE IF f[1] < lo THEN "number.min"
    ELSE "ok"

\* Joi.number().integer().min(lo).max(hi).default(dflt)
CheckRange(f, lo, hi) ==
    IF f = None THEN "ok"
    ELSE IF f[1] < lo THEN "number.min"
    ELSE IF f[1] > hi THEN "number.max"
    ELSE "ok"

\* schema.validate of GET /api/sheets
ValidateSheetsQuery(q) ==
    LET a == CheckMin(q.page, MinPage)
        b == CheckRange(q.pageSize, MinPageSize, MaxPageSize)
    IN  IF a # "ok" THEN [error |-> Some(<<"page", a>>), value |-> None]
        ELSE IF b # "ok" THEN [error |-> Some(<<"pageSize", b>>), value |-> None]
        ELSE [error |-> None,
              value |-> [page |-> IF q.page = None THEN DefaultPage ELSE q.page[1],
                         pageSize |-> IF q.pageSize = None THEN DefaultPageSize
                                      ELSE q.pageSize[1],
                         query |-> IF q.query = None THEN <<>> ELSE q.query[1]]]

ListCall(loc) ==
    [api |-> "drive.files.list", pageToken |-> loc.pageToken,
     pageSize |-> loc.pageSize, q |-> NameFilter(loc.query)]

\* index.js:159-163, after `pageToken = r.data.nextPageToken`: the loop goes
\* round again unless the token is missing or i + 1 reaches page.
LoopAgainOffByOne(i, page, pageToken) == pageToken # 0 /\ i + 1 <= page
LoopAgain(i, page, pageToken) == pageToken # 0 /\ i + 1 < page

\* index.js:158,161: the token the next list call carries, given the token
\* the call before it carried and the token that call returned.
TokenAfter(prev, returned) == returned

\* index.js:169-175: the preview of one file from its settled fetch
PreviewOf(o) == IF o.ok THEN OrElse(o.values, <<>>) ELSE <<>>

\* index.js:167-184: Promise.all keeps the order of `files`
ItemsByCompletion(files, previews, order) ==
    [j \in 1..Len(files) |-> [id |-> files[j].id, preview |-> PreviewOf(previews[order[j]][1])]]
ItemsOf(files, previews, order) ==
    [j \in 1..Len(files) |-> [id |-> files[j].id, preview |-> PreviewOf(previews[j][1])]]

RECURSIVE FilterProps(_)
\* index.js:210: .map(s => s.properties).filter(Boolean)
FilterProps(sheets) ==
    IF sheets = <<>> THEN <<>>
    ELSE (IF Head(sheets) = None THEN <<>> ELSE <<Head(sheets)[1]>>)
         \o FilterProps(Tail(sheets))

\* index.js:212
NoTabsNever(sheetProps) == FALSE
NoTabs(sheetProps) == Len(sheetProps) = 0

\* index.js:224-228
TabItems(sheetProps, valuesByIndex) ==
    [j \in 1..Len(sheetProps) |->
        [title |-> sheetProps[j].title, gid |-> sheetProps[j].sheetId,
         preview |-> IF j <= Len(valuesByIndex) THEN OrElse(valuesByIndex[j], <<>>)
                     ELSE <<>>]]

Unauthorized == [error |-> "Unauthorized"]

----------------------------------------------------------------------------
(* Guarded routes: ensureAuthed runs in the same callback as the handler's *)
(* first segment.                                                          *)

\* GET /api/me up to the await of oauth2.userinfo.get
MeStart(r) ==
    LET rq == req[r] IN
    /\ At(r, "me", "handler")
    /\ IF ~ensureAuthed(rq.sess)
       THEN Finish(r, rq, 401, Unauthorized)
       ELSE Await(r, [rq EXCEPT !.pc = "userinfo",
                        !.calls = Append(@, [api |-> "oauth2.userinfo.get"])])
    /\ UNCHANGED <<nextSid, env, drive, loggedOut, nreq>>

MeResume(r) ==
    LET rq == req[r] IN
    /\ At(r, "me", "userinfo")
    /\ \/ Finish(r, rq, 500, [error |-> "Failed to fetch user info"])
       \/ Finish(r, rq, 200, [id |-> UserInfo.id, name |-> UserInfo.name,
                              email |-> UserInfo.email, photo |-> UserInfo.picture])
    /\ UNCHANGED <<nextSid, env, drive, loggedOut, nreq>>

\* POST /api/sheets/:id/refresh
Refresh(r) ==
    LET rq == req[r] IN
    /\ At(r, "refresh", "handler")
    /\ IF ~ensureAuthed(rq.sess)
       THEN Finish(r, rq, 401, Unauthorized)
       ELSE Finish(r, rq, 200, [ok |-> TRUE])
    /\ UNCHANGED <<nextSid, env, drive, loggedOut, nreq>>

\* GET /api/sheets up to the await of the first drive.files.list
SheetsStart(r) ==
    LET rq == req[r]
        v == ValidateSheetsQuery(rq.arg)
    IN
    /\ At(r, "sheets", "handler")
    /\ IF ~ensureAuthed(rq.sess)
       THEN Finish(r, rq, 401, Unauthorized)
       ELSE IF v.error # None
       THEN Finish(r, rq, 400, [error |-> v.error[1]])
       ELSE LET loc == [page |-> v.value.page, pageSize |-> v.value.pageSize,
                        query |-> v.value.query, i |-> 1, pageToken |-> 0,
                        files |-> <<>>, previews |-> <<>>, order |-> <<>>]
            IN  Await(r, [rq EXCEPT !.pc = IF 1 < loc.page THEN "prelim" ELSE "final",
                            !.loc = loc,
                            !.calls = Append(@, ListCall(loc))])
    /\ UNCHANGED <<nextSid, env, drive, loggedOut, nreq>>

\* a list call of the for loop settles
SheetsPrelimResume(r) ==
    LET rq == req[r]
        res == DriveList(drive, rq.loc.pageToken)
        tok == TokenAfter(rq.loc.pageToken, res.nextPageToken)
        again == LoopAgain(rq.loc.i, rq.loc.page, tok)
        loc == [rq.loc EXCEPT !.pageToken = tok,
                              !.i = IF tok # 0 THEN @ + 1 ELSE @]
    IN
    /\ At(r, "sheets", "prelim")
    /\ \/ Finish(r, rq, 500, [error |-> "Failed to list sheets"])
       \/ Await(r, [rq EXCEPT !.pc = IF again THEN "prelim" ELSE "final",
                      !.loc = loc,
                      !.calls = Append(@, ListCall(loc))])
    /\ UNCHANGED <<nextSid, env, drive, loggedOut, nreq>>

\* the list call after the loop settles; the preview fetches of all its
\* files are issued together
SheetsFinalResume(r) ==
    LET rq == req[r]
        files == DriveList(drive, rq.loc.pageToken).files
        loc == [rq.loc EXCEPT !.files = files,
                              !.previews = [j \in 1..Len(files) |-> None]]
        rq2 == [rq EXCEPT !.pc = "previews", !.loc = loc,
                  !.calls = @ \o [j \in 1..Len(files) |->
                                    [api |-> "sheets.values.get",
                                     spreadsheetId |-> files[j].id,
                                     range |-> "A1:E3"]]]
    IN
    /\ At(r, "sheets", "final")
    /\ \/ Finish(r, rq, 500, [error |-> "Failed to list sheets"])
       \/ IF files = <<>>
          THEN Finish(r, rq2, 200, [items |-> <<>>, total |-> 0])
          ELSE Await(r, rq2)
    /\ UNCHANGED <<nextSid, env, drive, loggedOut, nreq>>

\* one preview fetch settles; when it was the last one, Promise.all
\* resolves and the response is written
PreviewResume(r, j) ==
    LET rq == req[r] IN
    /\ At(r, "sheets", "previews")
    /\ j \in 1..Len(rq.loc.files)
    /\ rq.loc.previews[j] = None
    /\ \E o \in PreviewOutcomes :
         LET loc == [rq.loc EXCEPT !.previews[j] = Some(o), !.order = Append(@, j)]
             rq2 == [rq EXCEPT !.loc = loc]
             items == ItemsOf(loc.files, loc.previews, loc.order)
         IN  IF \A k \in 1..Len(loc.files) : loc.previews[k] # None
             THEN Finish(r, rq2, 200, [items |-> items, total |-> Len(items)])
             ELSE Await(r, rq2)
    /\ UNCHANGED <<nextSid, env, drive, loggedOut, nreq>>

\* GET /api/sheets/:id/tabs up to the await of sheets.spreadsheets.get
TabsStart(r) ==
    LET rq == req[r] IN
    /\ At(r, "tabs", "handler")
    /\ IF ~ensureAuthed(rq.sess)
       THEN Finish(r, rq, 401, Unauthorized)
       ELSE Await(r, [rq EXCEPT !.pc = "meta",
                        !.calls = Append(@, [api |-> "sheets.get",
                                             spreadsheetId |-> rq.arg.id])])
    /\ UNCHANGED <<nextSid, env, drive, loggedOut, nreq>>

\* the metadata call settles
TabsMetaResume(r, outcomes) ==
    LET rq == req[r] IN
    /\ At(r, "tabs", "meta")
    /\ \E m \in outcomes :
         LET sheetProps == FilterProps(m.sheets)
             rq2 == [rq EXCEPT !.loc = [meta |-> m.sheets, sheetProps |-> sheetProps]]
         IN  IF ~m.ok
             THEN Finish(r, rq, 500, [error |-> "Failed to fetch inner sheets"])
             ELSE IF NoTabs(sheetProps)
             THEN Finish(r, rq2, 200, [items |-> <<>>])
             ELSE Await(r, [rq2 EXCEPT !.pc = "batch",
                              !.calls = Append(@,
                                  [api |-> "sheets.values.batchGet",
                                   spreadsheetId |-> rq.arg.id,
                                   ranges |-> [j \in 1..Len(sheetProps) |->
                                                 RangeOf(sheetProps[j].title)]])])
    /\ UNCHANGED <<nextSid, env, drive, loggedOut, nreq>>

\* the batch call settles
TabsBatchResume(r) ==
    LET rq == req[r] IN
    /\ At(r, "tabs", "batch")
    /\ \E b \in BatchOutcomes(Len(rq.loc.sheetProps)) :
         LET valuesByIndex == IF b.ok THEN OrElse(b.valueRanges, <<>>) ELSE <<>> IN
         Finish(r, rq, 200, [items |-> TabItems(rq.loc.sheetProps, valuesByIndex)])
    /\ UNCHANGED <<nextSid, env, drive, loggedOut, nreq>>

----------------------------------------------------------------------------
(* Request inputs *)

Cookies == {0} \cup issued

CallbackArgs == {[code |-> c] : c \in {None, Some(""), Some("c1")}}

GoodId == Chars("i", MinCredLen)
GoodSecret == Chars("s", MinCredLen)

ConfigBodiesFew ==
    {[clientId |-> Some(GoodId), clientSecret |-> b, redirectUri |-> c] :
        b \in {Some(Chars("s", MinCredLen - 1)), Some(GoodSecret)},
        c \in {None, Some(AppUri)}}

ConfigBodies ==
    {[clientId |-> a, clientSecret |-> b, redirectUri |-> c] :
        a \in {None, Some(GoodId)},
        b \in {Some(Chars("s", MinCredLen - 1)), Some(GoodSecret)},
        c \in {None, Some(<<>>), Some(AppUri), Some(BadUri)}}

SheetsArgs ==
    {[page |-> p, pageSize |-> None, query |-> None] :
        p \in {None} \cup {Some(n) : n \in 0..MaxPageArg}}
    \cup {[page |-> None, pageSize |-> Some(MaxPageSize + 1), query |-> None],
          [page |-> Some(2), pageSize |-> Some(MaxPageSize), query |-> Some(<<"a", "'">>)]}

SheetsArgsFew ==
    {[page |-> p, pageSize |-> None, query |-> None] : p \in {Some(0), Some(2)}}

IdArgs == {[id |-> "s1"]}

----------------------------------------------------------------------------
(* The server: requests of every route, interleaved *)

Init ==
    /\ store = [s \in Sids |-> None]
    /\ nextSid = 1
    /\ issued = {}
    /\ env = None
    /\ drive = <<FilesOfPage(1, 1)>>
    /\ req = [r \in Slots |-> Idle]
    /\ resp = NoResp
    /\ loggedOut = {}
    /\ posted = [s \in Sids |-> None]
    /\ nreq = 0

ArriveAny(r) ==
    \E c \in Cookies :
        \/ \E route \in {"login", "root", "cfgGet", "logout"} : Arrive(r, route, c, None)
        \/ \E a \in CallbackArgs : Arrive(r, "callback", c, a)
        \/ \E a \in ConfigBodiesFew : Arrive(r, "cfgPost", c, a)
        \/ \E a \in SheetsArgsFew : Arrive(r, "sheets", c, a)
        \/ \E route \in {"me", "refresh", "tabs"}, a \in IdArgs : Arrive(r, route, c, a)

Next ==
    \E r \in Slots :
        \/ ArriveAny(r)
        \/ Login(r)
        \/ Root(r)
        \/ ClientConfigGet(r)
        \/ CallbackStart(r)
        \/ CallbackResume(r, TokenBundles)
        \/ ClientConfigPost(r)
        \/ LogoutDestroy(r)
        \/ LogoutDone(r)
        \/ MeStart(r)
        \/ MeResume(r)
        \/ Refresh(r)
        \/ SheetsStart(r)
        \/ SheetsPrelimResume(r)
        \/ SheetsFinalResume(r)
        \/ \E j \in 1..MaxFiles : PreviewResume(r, j)
        \/ TabsStart(r)
        \/ TabsMetaResume(r, MetaFew)
        \/ TabsBatchResume(r)

Spec == Init /\ [][Next]_vars

----------------------------------------------------------------------------
(* The guarded handlers alone: one request at a time in an authenticated   *)
(* session, against every remote listing within the bounds.                *)

\* the session a login, a client-config POST, or both leave in the store
SessionsApi ==
    LET cfg == [clientId |-> GoodId, clientSecret |-> GoodSecret, redirectUri |-> AppUri]
    IN  {[tokens |-> Some("t1"), clientConfig |-> None],
         [tokens |-> Some("t1"), clientConfig |-> Some(cfg)],
         [tokens |-> None, clientConfig |-> Some(cfg)]}

InitApi ==
    /\ \E sess \in SessionsApi : store = [s \in Sids |-> IF s = 1 THEN Some(sess) ELSE None]
    /\ nextSid = 2
    /\ issued = {1}
    /\ env = None
    /\ drive \in Drives
    /\ req = [r \in Slots |-> Idle]
    /\ resp = NoResp
    /\ loggedOut = {}
    /\ posted = [s \in Sids |-> None]
    /\ nreq = MaxRequests - 1

ArriveApi ==
    \E c \in Cookies :
        \/ \E a \in SheetsArgs : Arrive(1, "sheets", c, a)
        \/ \E route \in {"me", "refresh", "tabs"}, a \in IdArgs : Arrive(1, route, c, a)

NextApi ==
    \/ ArriveApi
    \/ MeStart(1)
    \/ MeResume(1)
    \/ Refresh(1)
    \/ SheetsStart(1)
    \/ SheetsPrelimResume(1)
    \/ SheetsFinalResume(1)
    \/ \E j \in 1..MaxFiles : PreviewResume(1, j)
    \/ TabsStart(1)
    \/ TabsMetaResume(1, MetaOutcomes)
    \/ TabsBatchResume(1)

SpecApi == InitApi /\ [][NextApi]_vars

----------------------------------------------------------------------------
(* The session routes with requests handled one after another, with every  *)
(* request body and environment within the bounds.                         *)

InitSeq ==
    /\ store = [s \in Sids |-> None]
    /\ nextSid = 1
    /\ issued = {}
    /\ env \in {None, Some(EnvUri)}
    /\ drive = <<FilesOfPage(1, 1)>>
    /\ req = [r \in Slots |-> Idle]
    /\ resp = NoResp
    /\ loggedOut = {}
    /\ posted = [s \in Sids |-> None]
    /\ nreq = 0

ArriveSeq ==
    \E c \in Cookies :
        \/ \E route \in {"login", "root", "cfgGet", "logout"} : Arrive(1, route, c, None)
        \/ \E a \in CallbackArgs : Arrive(1, "callback", c, a)
        \/ \E a \in ConfigBodies : Arrive(1, "cfgPost", c, a)

NextSeq ==
    \/ ArriveSeq
    \/ Login(1)
    \/ Root(1)
    \/ CallbackStart(1)
    \/ CallbackResume(1, TokenBundles)
    \/ ClientConfigGet(1)
    \/ ClientConfigPost(1)
    \/ LogoutDestroy(1)
    \/ LogoutDone(1)

SpecSeq == InitSeq /\ [][NextSeq]_vars

----------------------------------------------------------------------------
(* Properties *)

IsListCall(c) == c.api = "drive.files.list"
IsBatchCall(c) == c.api = "sheets.values.batchGet"
Ids(files) == [j \in 1..Len(files) |-> files[j].id]
SheetsOk == resp.route = "sheets" /\ resp.status = 200
Stepped(r) == req[r].pc # "idle" /\ req'[r] # req[r]

\* C1: a guarded request whose session holds no tokens is answered 401
\* {error: "Unauthorized"} whatever its query is, and no remote call is
\* issued for it, neither before the answer nor while it is in flight.
C1_GuardRejectsWithoutTokens ==
    /\ (resp.route \in Guarded /\ resp.orig.tokens = None)
          => (resp.status = 401 /\ resp.body = [error |-> "Unauthorized"] /\ resp.calls = <<>>)
    /\ \A r \in Slots :
          (req[r].route \in Guarded /\ req[r].sess.tokens = None)
              => (req[r].pc = "handler" /\ req[r].calls = <<>>)

C1_Witness ==
    /\ resp.route = "sheets"
    /\ resp.status = 401
    /\ resp.arg.page = Some(0)
    /\ resp.orig.clientConfig # None

\* C2: when page N > 1 is asked of a listing with fewer than N pages, the
\* items answered are those of the listing's last page.
C2_ExhaustedReturnsLastPage ==
    (SheetsOk /\ resp.loc.page > 1 /\ Len(drive) < resp.loc.page)
        => Ids(resp.body.items) = Ids(drive[Len(drive)])

\* C3: when page N is asked of a listing with at least N pages, the list
\* calls are the first N calls of the request, the first carries no page
\* token, each later one carries the token the call before it returned,
\* and the items answered are the files of the N-th call alone (for N = 1:
\* one list call, without a token).
C3_PaginationWalk ==
    (SheetsOk /\ Len(drive) >= resp.loc.page) =>
        LET n == resp.loc.page
            lists == SelectSeq(resp.calls, IsListCall)
        IN  /\ Len(lists) = n
            /\ SubSeq(resp.calls, 1, n) = lists
            /\ lists[1].pageToken = 0
            /\ \A k \in 2..n :
                  lists[k].pageToken = DriveList(drive, lists[k - 1].pageToken).nextPageToken
            /\ Ids(resp.body.items) = Ids(DriveList(drive, lists[n].pageToken).files)
            /\ Ids(resp.body.items) = Ids(drive[n])

C3_Witness ==
    /\ SheetsOk
    /\ resp.loc.page = 3
    /\ Len(drive) = 3
    /\ Len(resp.body.items) = MaxFiles

\* C4: a successful GET /api/sheets answers one item per file of the final
\* list call, in the order of the files, with total their number; the
\* preview of a file whose fetch failed is empty and the preview of one
\* whose fetch succeeded is the values it returned (empty when it returned
\* none), in whatever order the fetches completed; and the request is
\* never answered 500 once its preview fetches were issued.
C4_PreviewFailuresAreIsolated ==
    /\ (resp.route = "sheets" /\ resp.status = 500) => resp.loc.previews = <<>>
    /\ SheetsOk =>
        LET files == resp.loc.files
            lists == SelectSeq(resp.calls, IsListCall)
            items == resp.body.items
        IN  /\ files = DriveList(drive, lists[Len(lists)].pageToken).files
            /\ Len(items) = Len(files)
            /\ resp.body.total = Len(files)
            /\ \A j \in 1..Len(files) :
                  LET o == resp.loc.previews[j][1] IN
                  /\ items[j].id = files[j].id
                  /\ ~o.ok => items[j].preview = <<>>
                  /\ (o.ok /\ o.values # None) => items[j].preview = o.values[1]
                  /\ (o.ok /\ o.values = None) => items[j].preview = <<>>

C4_Witness ==
    /\ SheetsOk
    /\ Len(resp.loc.files) = 2
    /\ resp.loc.order = <<2, 1>>
    /\ ~resp.loc.previews[1][1].ok
    /\ resp.body.items[2].preview = Grid

\* a body that violates the schema of POST /auth/client-config, as the
\* specification words it
ViolatesSchema(b) ==
    \/ b.clientId = None
    \/ Len(b.clientId[1]) < MinCredLen
    \/ b.clientSecret = None
    \/ Len(b.clientSecret[1]) < MinCredLen
    \/ (b.redirectUri # None /\ b.redirectUri[1] # <<>> /\ ~IsUri(b.redirectUri[1]))

\* C5: the step that handles a POST /auth/client-config whose body violates
\* the schema answers 400 and leaves the session store as it was.
C5_InvalidConfigChangesNothing ==
    [][\A r \in Slots :
          (req[r].route = "cfgPost" /\ Stepped(r) /\ ViolatesSchema(req[r].arg))
              => (resp'.status = 400 /\ store' = store /\ req'[r].pc = "idle")]_vars

C5_Witness ==
    /\ resp.route = "cfgPost"
    /\ resp.status = 400
    /\ resp.arg.clientSecret = Some(Chars("s", MinCredLen - 1))
    /\ resp.orig.tokens # None
    /\ resp.orig.clientConfig # None
    /\ store[resp.sid] = Some(resp.orig)

ConfigSecrets(rs) ==
    (IF rs.orig.clientConfig = None THEN {}
     ELSE {rs.orig.clientConfig[1].clientId, rs.orig.clientConfig[1].clientSecret})
    \cup (IF rs.route = "cfgPost" /\ rs.arg.clientId # None THEN {rs.arg.clientId[1]} ELSE {})
    \cup (IF rs.route = "cfgPost" /\ rs.arg.clientSecret # None THEN {rs.arg.clientSecret[1]}
          ELSE {})

C7_LogoutEndsSession ==
    /\ \A s \in loggedOut \cap Sids : store[s] = None
    /\ (resp.route \in Guarded /\ resp.late) => resp.status = 401

\* C8: a step of a GET /auth/callback changes the session store only when
\* it answers the redirect of a successful exchange; without a code the
\* answer is 400 and no exchange is attempted, and an answer of 400 or 500
\* leaves the store as it was.
C8_CallbackWritesOnlyOnSuccess ==
    [][\A r \in Slots :
          (req[r].route = "callback" /\ Stepped(r)) =>
              /\ (req[r].pc = "handler" /\ req[r].arg.code = None)
                    => (resp'.status = 400 /\ resp'.calls = <<>> /\ req'[r].pc = "idle")
              /\ req[r].pc = "getToken" => resp'.status \in {302, 500}
              /\ resp'.status \in {400, 500} => store' = store
              /\ store' # store
                    => /\ resp'.status = 302
                       /\ req[r].pc = "getToken"
                       /\ \E t \in TokenBundles :
                            store' = [store EXCEPT ![req[r].sid] =
                                        Some([req[r].sess EXCEPT !.tokens = Some(t)])]]_vars

C8_Witness ==
    /\ resp.route = "callback"
    /\ resp.status = 500
    /\ resp.orig.tokens # None
    /\ store[resp.sid] = Some(resp.orig)

\* C9: GET /api/sheets/:id/tabs issues its batch call only after the
\* metadata call returned at least one tab: with no tab the answer is
\* {items: []} and the metadata call is the only call; with one or more
\* the calls are the metadata call and then exactly one batch call.
C9_BatchOnlyWithTabs ==
    /\ (resp.route = "tabs" /\ resp.status = 200) =>
          IF resp.loc.sheetProps = <<>>
          THEN /\ resp.body = [items |-> <<>>]
               /\ Len(resp.calls) = 1
               /\ resp.calls[1].api = "sheets.get"
          ELSE /\ Len(resp.calls) = 2
               /\ resp.calls[1].api = "sheets.get"
               /\ IsBatchCall(resp.calls[2])
               /\ Len(resp.calls[2].ranges) = Len(resp.loc.sheetProps)
               /\ Len(resp.body.items) = Len(resp.loc.sheetProps)
    /\ (resp.route = "tabs" /\ resp.status # 200) => SelectSeq(resp.calls, IsBatchCall) = <<>>
    /\ \A r \in Slots :
          (req[r].route = "tabs" /\ SelectSeq(req[r].calls, IsBatchCall) # <<>>)
              => (req[r].pc = "batch" /\ req[r].loc.sheetProps # <<>>)

C9_Witness ==
    /\ resp.route = "tabs"
    /\ resp.status = 200
    /\ resp.loc.meta = <<>>
    /\ resp.loc.sheetProps = <<>>
    /\ resp.body.items = <<>>

\* C10: once GET /auth/logout has completed for a session id, a request
\* that started before it does not put tokens under that id again: when a
\* GET /auth/callback that loaded the session before the logout answers the
\* redirect of its exchange, the store holds no tokens under the id.
C10_NoTokensAfterLogout ==
    (resp.route = "callback" /\ resp.status = 302 /\ resp.sid \in loggedOut)
        => (store[resp.sid] = None \/ store[resp.sid][1].tokens = None)

====
